---- MODULE Spec2Model ----
(***************************************************************************)
(* A model of src/src/App.tsx: the to-do list of the App component, its    *)
(* persistence through useLocalStorage, and the four user operations       *)
(* (submit of the entry form, click on a status box, click on Delete,      *)
(* drop of a dragged row).                                                 *)
(*                                                                         *)
(* A JSON text is modelled as a sequence of tokens; absent storage, the    *)
(* empty string and a truncated text are distinct values of the item.      *)
(***************************************************************************)
EXTENDS Integers, Sequences, FiniteSets, TLC

VARIABLES
    todos,      \* storedValue of useLocalStorage("todos", ...): the task list
    storage,    \* window.localStorage's entry under the key "todos"
    cycle,      \* history, parallel to todos: the status a task started from
                \* and the number of status clicks it received since,
                \* counted modulo the number of statuses
    last,       \* history: the handler that ran last, its argument and outcome
    failures,   \* history: number of storage writes that threw so far
    backed      \* history: the list was read from storage at mount, or a
                \* write reached storage since

vars == <<todos, storage, cycle, last, failures, backed>>

(***************************************************************************)
(* Bounds of the model.                                                    *)
(***************************************************************************)
MaxLen == 2
MaxWriteFailures == 1

(***************************************************************************)
(* TodoStatus, and the values the inputs are drawn from.                   *)
(***************************************************************************)
TODO == "todo"
DOING == "doing"
DONE == "done"
BLOCKED == "blocked"

TodoStatus == {TODO, DOING, DONE, BLOCKED}

\* The enum's members in declaration order.
StatusOrder == <<TODO, DOING, DONE, BLOCKED>>

\* Outcomes of simpleUniqueId(): Math.random() decides the string, and no
\* call looks at the ids already in the list.
Ids == {"3fa91c07", "b2e4d680"}

\* What the user may have typed in the entry form when it is submitted.
Texts == {"", "buy milk"}

DefaultText == "Add your first TODO"

Todo(text, status, id, duration) ==
    [text |-> text, status |-> status, id |-> id, duration |-> duration]

\* The initialValue App hands to useLocalStorage.
DefaultTodos(id) == <<Todo(DefaultText, TODO, id, 0)>>

(***************************************************************************)
(* JSON.stringify and JSON.parse on task lists.                            *)
(***************************************************************************)
stringifyTodo(t) ==
    <<"{", "text", t.text, "status", t.status, "id", t.id,
      "duration", ToString(t.duration), "}">>

RECURSIVE stringifyItems(_)
stringifyItems(list) ==
    IF list = <<>> THEN <<>>
    ELSE stringifyTodo(Head(list)) \o stringifyItems(Tail(list))

stringify(list) == <<"[">> \o stringifyItems(list) \o <<"]">>

NumberLiterals == {ToString(n) : n \in 0..1}

parseNumber(s) == CHOOSE n \in 0..1 : ToString(n) = s

wellFormedObject(c) ==
    /\ c[1] = "{" /\ c[2] = "text" /\ c[4] = "status" /\ c[6] = "id"
    /\ c[8] = "duration" /\ c[9] \in NumberLiterals /\ c[10] = "}"

parseObject(c) == Todo(c[3], c[5], c[7], parseNumber(c[9]))

\* [ok |-> FALSE] stands for the SyntaxError JSON.parse throws.
parse(text) ==
    LET n == Len(text)
        body == SubSeq(text, 2, n - 1)
        k == Len(body) \div 10
        chunk(i) == SubSeq(body, 10 * (i - 1) + 1, 10 * i)
    IN  IF /\ n >= 2
           /\ text[1] = "["
           /\ text[n] = "]"
           /\ Len(body) % 10 = 0
           /\ \A i \in 1..k : wellFormedObject(chunk(i))
        THEN [ok |-> TRUE, value |-> [i \in 1..k |-> parseObject(chunk(i))]]
        ELSE [ok |-> FALSE, value |-> <<>>]

(***************************************************************************)
(* useLocalStorage.                                                        *)
(***************************************************************************)
NoItem == [has |-> FALSE, text |-> <<>>]
Item(text) == [has |-> TRUE, text |-> text]

\* The initializer of useState: getItem, then JSON.parse inside try/catch.
\* readOk = FALSE is getItem throwing.
loadMissingAsEmpty(item, initialValue, readOk) ==
    IF ~readOk THEN initialValue
    ELSE IF item.has /\ item.text # <<>>
         THEN IF parse(item.text).ok THEN parse(item.text).value ELSE <<>>
         ELSE initialValue

load(item, initialValue, readOk) ==
    IF ~readOk THEN initialValue
    ELSE IF item.has /\ item.text # <<>>
         THEN IF parse(item.text).ok
              THEN parse(item.text).value
              ELSE initialValue
         ELSE initialValue

\* setValue, line 48-49: value is never a function here.
valueToStoreTruncated(value, storedValue) ==
    SubSeq(value, 1, Len(value) - 1)

valueToStore(value, storedValue) == value

\* setValue, line 50: the state takes the new value before the write.
setStoredValueAfterWrite(value, storedValue, writeOk) ==
    IF writeOk THEN value ELSE storedValue

setStoredValue(value, storedValue, writeOk) == value

\* setValue, line 51: what setItem is handed.
itemToWriteStale(value, storedValue) == Item(stringify(storedValue))

itemToWrite(value, storedValue) == Item(stringify(value))

\* setValue, lines 47-54: the catch logs and returns.
setValueOutcome(writeOk) == IF writeOk THEN "stored" ELSE "logged"

(***************************************************************************)
(* The handlers of App and TodoForm, as functions of the list.             *)
(***************************************************************************)
\* TodoForm.handleSubmit, line 181.
submitNeverIgnored(value) == FALSE

submitIgnored(value) == value = ""

\* addTodo, lines 210-213.
addTodoList(list, text, id) == <<Todo(text, TODO, id, 0)>> \o list

\* deleteTodo, line 220.
RECURSIVE filterOut(_, _)
filterOut(list, id) ==
    IF list = <<>> THEN <<>>
    ELSE IF Head(list).id # id
         THEN <<Head(list)>> \o filterOut(Tail(list), id)
         ELSE filterOut(Tail(list), id)

deleteTodoListInverted(list, id) == SelectSeq(list, LAMBDA t : t.id = id)

deleteTodoList(list, id) == filterOut(list, id)

\* updateTodo.getStatus, lines 226-236.
getStatusThreeState(status) ==
    IF status = TODO THEN DOING
    ELSE IF status = DOING THEN DONE
    ELSE TODO

getStatus(status) ==
    IF status = TODO THEN DOING
    ELSE IF status = DOING THEN DONE
    ELSE IF status = DONE THEN BLOCKED
    ELSE TODO

\* updateTodo, lines 238-239; index counts from 1 here.
updateTodoListById(list, index) ==
    [i \in 1..Len(list) |->
        IF list[i].id = list[index].id
        THEN [list[i] EXCEPT !.status = getStatus(list[i].status)]
        ELSE list[i]]

updateTodoList(list, index) ==
    [list EXCEPT ![index].status = getStatus(list[index].status)]

\* The arrays ReactSortable may hand to setList after a drop.
Perms(n) == {p \in [1..n -> 1..n] : \A i, j \in 1..n : p[i] = p[j] => i = j}

reordered(list, p) == [i \in 1..Len(list) |-> list[p[i]]]

(***************************************************************************)
(* History records.                                                        *)
(***************************************************************************)
Last(op, text, id, index, out, val) ==
    [op |-> op, text |-> text, id |-> id, index |-> index, out |-> out,
     val |-> val, readOk |-> TRUE]

\* The history entries of the tasks deleteTodo keeps.
RECURSIVE keptCycle(_, _, _)
keptCycle(hist, list, id) ==
    IF list = <<>> \/ hist = <<>> THEN <<>>
    ELSE IF Head(list).id # id
         THEN <<Head(hist)>> \o keptCycle(Tail(hist), Tail(list), id)
         ELSE keptCycle(Tail(hist), Tail(list), id)

freshCycle(list) == [i \in 1..Len(list) |-> [from |-> list[i].status, n |-> 0]]

(***************************************************************************)
(* Actions.                                                                *)
(***************************************************************************)
\* setValue(value), lines 46-55, called by a handler; newCycle is the
\* history that goes with value.
SetValue(value, writeOk, newCycle) ==
    /\ writeOk \/ failures < MaxWriteFailures
    /\ todos' = setStoredValue(valueToStore(value, todos), todos, writeOk)
    /\ storage' = IF writeOk
                  THEN itemToWrite(valueToStore(value, todos), todos)
                  ELSE storage
    /\ failures' = IF writeOk THEN failures ELSE failures + 1
    /\ backed' = (backed \/ writeOk)
    /\ cycle' = newCycle

\* What an earlier session may have left under the key.
StoredBefore ==
    <<Todo("buy milk", DONE, "3fa91c07", 0)>>

InitialStorage ==
    {NoItem, Item(<<>>), Item(<<"[", "{", "text">>), Item(stringify(<<>>)),
     Item(stringify(StoredBefore))}

\* The first render of App, lines 200-207 and 37-44.
Mount(st, id, readOk) ==
    /\ storage = st
    /\ todos = load(st, DefaultTodos(id), readOk)
    /\ cycle = freshCycle(todos)
    /\ backed = (readOk /\ st.has /\ st.text # <<>> /\ parse(st.text).ok)
    /\ last = [Last("mount", "", id, 0,
                    IF backed THEN "loaded" ELSE "default", <<>>)
                   EXCEPT !.readOk = readOk]
    /\ failures = 0

Init ==
    \E st \in InitialStorage, id \in Ids, readOk \in BOOLEAN :
        Mount(st, id, readOk)

\* TodoForm.handleSubmit, lines 179-184, and addTodo, lines 209-215.
Submit(value, id, writeOk) ==
    IF submitIgnored(value)
    THEN /\ last' = Last("submit", value, "", 0, "ignored", <<>>)
         /\ UNCHANGED <<todos, storage, cycle, failures, backed>>
    ELSE /\ Len(todos) < MaxLen
         /\ SetValue(addTodoList(todos, value, id), writeOk,
                     <<[from |-> TODO, n |-> 0]>> \o cycle)
         /\ last' = Last("submit", value, id, 0, setValueOutcome(writeOk),
                         addTodoList(todos, value, id))

\* deleteTodo, lines 217-223, reached from the Delete span of a row.
Delete(index, confirmResult, writeOk) ==
    /\ index \in 1..Len(todos)
    /\ LET id == todos[index].id
       IN  IF confirmResult
           THEN /\ SetValue(deleteTodoList(todos, id), writeOk,
                            keptCycle(cycle, todos, id))
                /\ last' = Last("delete", "", id, 0, setValueOutcome(writeOk),
                                deleteTodoList(todos, id))
           ELSE /\ last' = Last("delete", "", id, 0, "denied", <<>>)
                /\ UNCHANGED <<todos, storage, cycle, failures, backed>>

\* updateTodo, lines 225-241, reached from the status box of a row of the
\* full list (the rows of the derived panels pass a no-op).
Advance(index, writeOk) ==
    /\ index \in 1..Len(todos)
    /\ SetValue(updateTodoList(todos, index), writeOk,
                [cycle EXCEPT ![index].n = (@ + 1) % Len(StatusOrder)])
    /\ last' = Last("advance", "", "", index, setValueOutcome(writeOk),
                    updateTodoList(todos, index))

\* setList of ReactSortable, line 250: the list after a drop.
Reorder(p, writeOk) ==
    /\ Len(todos) >= 1
    /\ SetValue(reordered(todos, p), writeOk, reordered(cycle, p))
    /\ last' = Last("reorder", "", "", 0, setValueOutcome(writeOk),
                    reordered(todos, p))

Next ==
    \/ \E value \in Texts, id \in Ids, writeOk \in BOOLEAN :
           Submit(value, id, writeOk)
    \/ \E index \in 1..MaxLen, c \in BOOLEAN, writeOk \in BOOLEAN :
           Delete(index, c, writeOk)
    \/ \E index \in 1..MaxLen, writeOk \in BOOLEAN : Advance(index, writeOk)
    \/ \E p \in Perms(Len(todos)), writeOk \in BOOLEAN : Reorder(p, writeOk)

Spec == Init /\ [][Next]_vars

(***************************************************************************)
(* Vocabulary of the properties.                                           *)
(***************************************************************************)
\* A handler went through setValue.
Wrote(l) == l.out \in {"stored", "logged"}

\* The list with position k taken out.
Without(list, k) ==
    [i \in 1..(Len(list) - 1) |-> IF i < k THEN list[i] ELSE list[i + 1]]

\* Number of positions of list holding t.
Count(list, t) == Cardinality({i \in 1..Len(list) : list[i] = t})

Range(list) == {list[i] : i \in 1..Len(list)}

\* Position of a status in the fixed sequence, from 0.
Place(status) == CHOOSE k \in 0..(Len(StatusOrder) - 1) : StatusOrder[k + 1] = status

\* Storage holds the serialization of the in-memory list, and a new
\* session reads that list back whatever id its default task would get.
StorageMirrorsMemory ==
    /\ storage = Item(stringify(todos))
    /\ \A id \in Ids : load(storage, DefaultTodos(id), TRUE) = todos

\* Lists an earlier session can have stored, up to one task.
CandidateLists ==
    {<<>>} \cup {<<Todo(t, s, i, 0)>> :
                    t \in (Texts \cup {DefaultText}), s \in TodoStatus, i \in Ids}

(***************************************************************************)
(* C1: no two tasks of the task list have the same id, in every reachable  *)
(* state.                                                                  *)
(***************************************************************************)
C1_UniqueIds ==
    \A i, j \in 1..Len(todos) : todos[i].id = todos[j].id => i = j

(***************************************************************************)
(* C2: Add with a non-empty text makes the list one longer, and the new    *)
(* task has status todo, duration 0, the given text and an id that no task *)
(* already in the list has.                                                *)
(***************************************************************************)
C2_AddContract ==
    [][(last'.op = "submit" /\ last'.text # "") =>
          /\ Len(todos') = Len(todos) + 1
          /\ \E k \in 1..Len(todos') :
                /\ Without(todos', k) = todos
                /\ todos'[k].status = TODO
                /\ todos'[k].duration = 0
                /\ todos'[k].text = last'.text
                /\ \A i \in 1..Len(todos) : todos[i].id # todos'[k].id]_vars

(***************************************************************************)
(* C3: Add with empty text leaves the task list and the stored value as    *)
(* they were; no task is created.                                          *)
(***************************************************************************)
C3_EmptyAddNoop ==
    [][(last'.op = "submit" /\ last'.text = "") =>
          (todos' = todos /\ storage' = storage)]_vars

C3_Witness ==
    /\ last.op = "submit" /\ last.text = "" /\ last.out = "ignored"
    /\ Len(todos) >= 1

(***************************************************************************)
(* C4: a task that received n status clicks stands n places further in the *)
(* sequence todo, doing, done, blocked (wrapping), so it is back at the    *)
(* status it started from after 4 clicks and not before.                   *)
(***************************************************************************)
C4_StatusCycle ==
    \A i \in 1..Len(todos) :
        /\ todos[i].status =
               StatusOrder[((Place(cycle[i].from) + cycle[i].n) % 4) + 1]
        /\ (todos[i].status = cycle[i].from) <=> (cycle[i].n = 0)

C4_Witness ==
    /\ last.op = "advance"
    /\ cycle[last.index].from = TODO
    /\ cycle[last.index].n = 0
    /\ todos[last.index].status = TODO

C7_AlwaysMirrored ==
    (failures = 0 /\ last.op # "mount") => StorageMirrorsMemory

(***************************************************************************)
(* C7, amended: while no write has failed, once the list was loaded from a *)
(* stored value or an operation has written to storage, the stored value   *)
(* equals the in-memory list and a reload returns that list, field for     *)
(* field and in the same order.                                            *)
(***************************************************************************)
C7_MirroredOnceBacked ==
    (failures = 0 /\ backed) => StorageMirrorsMemory

C7_Witness ==
    /\ failures = 0 /\ backed /\ last.out = "stored"
    /\ Len(todos) = 2 /\ todos[1].status # todos[2].status

(***************************************************************************)
(* C8: a failed write leaves storage at its previous value while the       *)
(* in-memory list has the new value, the handler returns normally, and a   *)
(* write that succeeds makes storage equal to the in-memory list.          *)
(***************************************************************************)
C8_FailedWriteDiverges ==
    [][/\ (last'.out = "logged") =>
              (todos' = last'.val /\ storage' = storage)
       /\ (last'.out = "stored") =>
              (todos' = last'.val /\ storage' = Item(stringify(todos')))
       /\ last'.out \in {"stored", "logged", "ignored", "denied"}]_vars

C8_Witness ==
    /\ last.out = "logged"
    /\ todos = last.val
    /\ backed
    /\ storage # Item(stringify(todos))

(***************************************************************************)
(* C9: at initialisation the list is the deserialized stored value when    *)
(* one is present and parses, and the default list when the key is absent  *)
(* or reading or parsing fails.                                            *)
(***************************************************************************)
C9_LoadOrDefault ==
    (last.op = "mount") =>
        IF last.readOk /\ \E list \in CandidateLists :
                             storage = Item(stringify(list))
        THEN storage = Item(stringify(todos))
        ELSE todos = DefaultTodos(last.id)

C9_Witness ==
    /\ last.op = "mount" /\ last.readOk
    /\ storage.has /\ storage.text # <<>>
    /\ storage \notin {Item(stringify(list)) : list \in CandidateLists}
    /\ todos = DefaultTodos(last.id)

(***************************************************************************)
(* C10: Advance(index) changes the status of the task at position index    *)
(* and nothing else: length, order, every id, text and duration, and the   *)
(* status of every other task stay.                                        *)
(***************************************************************************)
C10_AdvanceFrame ==
    [][(last'.op = "advance") =>
          /\ Len(todos') = Len(todos)
          /\ \A j \in 1..Len(todos) :
                /\ todos'[j].id = todos[j].id
                /\ todos'[j].text = todos[j].text
                /\ todos'[j].duration = todos[j].duration
                /\ (j # last'.index) => todos'[j].status = todos[j].status
          /\ todos'[last'.index].status # todos[last'.index].status]_vars

C10_Witness ==
    /\ last.op = "advance" /\ last.out = "stored"
    /\ Len(todos) = 2
    /\ todos[1].id = todos[2].id

====
